---------------------------- MODULE Spec2Model ----------------------------
(***************************************************************************)
(* A model of genewalk.py: the GeneWalk object, its empirical p-value      *)
(* (P_sim), the per-gene table of significant GO terms (get_GO_df) and the *)
(* report loop (generate_output).                                          *)
(*                                                                         *)
(* Numbers.  Similarities are integers in hundredths (90 is 0.9).          *)
(* p-values are exact rationals <<num, den>> in lowest terms with den > 0; *)
(* the code computes them in binary floating point, whose rounding is not  *)
(* modelled.                                                               *)
(*                                                                         *)
(* Names.  genewalk.py uses five module-level names it never binds: path,  *)
(* pkl and nx in __init__ (nx again at line 69) and GW and tr at line 75.  *)
(* A GeneWalk object exists only where __init__ ran to its end, so in      *)
(* every state after construction path, pkl and nx are bound.  Nothing     *)
(* constrains GW and tr: the variable GW holds what GW[tr] is bound to,    *)
(* which may be nothing (line 75 then raises NameError).                   *)
(*                                                                         *)
(* Exceptions.  An operator that models a call that can raise returns a    *)
(* record whose exc field names what it raises ("none": it returns).       *)
(***************************************************************************)
EXTENDS Integers, Sequences, FiniteSets, TLC

VARIABLES
    graph,      \* self.MG.graph: [adj, HGNC, name, order]
    GO_nodes,   \* self.GO_nodes: the nodes that carry a 'GO' attribute
    nv,         \* self.nv: [vocab], the words that have a node vector
    srd,        \* self.srd: bucket key -> ascending null similarities
    hgncid,     \* self.hgncid: the gene-of-interest list
    GW,         \* what the module-level name GW[tr] of line 75 is bound to
    outdf,      \* self.outdf: the accumulated table, a sequence of rows
    pc,         \* position: "idle", "loop", "done", "raised"
    idx,        \* generate_output: index into g_view of the next node
    alpha_FDR,  \* generate_output: its alpha_FDR argument
    calls,      \* number of generate_output calls started
    reports,    \* the tables generate_output has returned (and written)
    last,       \* the locals of the last loop iteration
    q_n,        \* P_sim called directly: the connectivity argument
    q_log       \* P_sim called directly: the calls made and their results

vars == <<graph, GO_nodes, nv, srd, hgncid, GW, outdf, pc, idx, alpha_FDR,
          calls, reports, last, q_n, q_log>>

(***************************************************************************)
(* Bounds.                                                                 *)
(***************************************************************************)
MaxCalls == 2
MaxQueries == 2
MaxConn == 9

(***************************************************************************)
(* Rational arithmetic.                                                    *)
(***************************************************************************)
Abs(x) == IF x < 0 THEN -x ELSE x

RECURSIVE GCD(_, _)
GCD(a, b) == IF b = 0 THEN a ELSE GCD(b, a % b)

Rat(n, d) == LET g == GCD(Abs(n), d) IN <<n \div g, d \div g>>

RLess(a, b) == a[1] * b[2] < b[1] * a[2]

RLeq(a, b) == a[1] * b[2] <= b[1] * a[2]

RMin(a, b) == IF RLess(b, a) THEN b ELSE a

ROne == <<1, 1>>

RZero == <<0, 1>>

(***************************************************************************)
(* P_sim.                                                                  *)
(***************************************************************************)
RECURSIVE FloorLog2(_)
FloorLog2(n) == IF n < 2 THEN 0 ELSE 1 + FloorLog2(n \div 2)

Digits == <<"0", "1", "2", "3", "4", "5", "6", "7", "8", "9">>

RECURSIVE IntStr(_)
IntStr(k) == IF k < 10 THEN <<Digits[k + 1]>>
             ELSE IntStr(k \div 10) \o <<Digits[(k % 10) + 1]>>

\* str(np.floor(np.log2(N_con))): the float prints with one decimal, and
\* log2(0) is -inf.
FloatStr(n) == IF n = 0 THEN <<"-", "i", "n", "f">>
               ELSE IntStr(FloorLog2(n)) \o <<".", "0">>

DistKey(N_con) == <<"d">> \o FloatStr(N_con)

\* np.searchsorted(a, v, side='left'): binary search on [lo, hi).
RECURSIVE BinSearchLeft(_, _, _, _)
BinSearchLeft(a, v, lo, hi) ==
    IF lo >= hi THEN lo
    ELSE LET mid == lo + ((hi - lo) \div 2) IN
         IF a[mid + 1] < v THEN BinSearchLeft(a, v, mid + 1, hi)
         ELSE BinSearchLeft(a, v, lo, mid)

RECURSIVE BinSearchRight(_, _, _, _)
BinSearchRight(a, v, lo, hi) ==
    IF lo >= hi THEN lo
    ELSE LET mid == lo + ((hi - lo) \div 2) IN
         IF a[mid + 1] <= v THEN BinSearchRight(a, v, mid + 1, hi)
         ELSE BinSearchRight(a, v, lo, mid)

SearchSortedRight(a, v) == BinSearchRight(a, v, 0, Len(a))

SearchSorted(a, v) == BinSearchLeft(a, v, 0, Len(a))

PvalOfRankWrong(RANK, n) == Rat(RANK, n)

\* PCT_RANK = float(RANK)/len(...); pval = 1 - PCT_RANK
PvalOfRank(RANK, n) == Rat(n - RANK, n)

\* The result of a call: the value returned, or the KeyError of the lookup
\* self.srd[dist_key].
P_sim(sim, N_con) ==
    LET dist_key == DistKey(N_con) IN
    IF dist_key \notin DOMAIN srd
    THEN [exc |-> "KeyError", pval |-> RZero]
    ELSE LET RANK == SearchSorted(srd[dist_key], sim) IN
         [exc |-> "none", pval |-> PvalOfRank(RANK, Len(srd[dist_key]))]

(***************************************************************************)
(* Null distribution tables: bucket key -> ascending similarities.         *)
(***************************************************************************)
K0 == <<"d", "0", ".", "0">>
K1 == <<"d", "1", ".", "0">>
K3 == <<"d", "3", ".", "0">>

Five == <<10, 30, 50, 70, 90>>

\* 100 values: 40 below 0.2, 99 below 0.9.
Hundred == [i \in 1..100 |-> IF i <= 40 THEN 10 ELSE IF i <= 99 THEN 50 ELSE 95]

NullTables ==
    { (K0 :> Hundred) @@ (K1 :> Five) @@ (K3 :> Five),
      (K0 :> Five) @@ (K3 :> <<20, 20, 60>>),
      (K0 :> <<20, 60, 60, 100>>) @@ (K1 :> <<50>>) @@ (K3 :> <<-50, 0, 0, 100>>) }

SimValues == {-50, 0, 10, 20, 30, 50, 60, 90, 95, 100}


(***************************************************************************)
(* The graph, the node vectors and the gene list.                          *)
(***************************************************************************)
Genes == {"G1", "G2"}

Terms == {"T1", "T2"}

Nodes == Genes \cup Terms

NoAttr == "none"

NaN == "NaN"

\* A fixed enumeration of the nodes: the order of the vocabulary.
NodeSeq == <<"G1", "G2", "T1", "T2">>

\* A function on 1..n as the sequence of its values.
AsSeq(f) == f \o <<>>

\* s sorted by lt, where lt[<<i, j>>] says that s[i] comes before s[j];
\* elements that lt does not order keep their order.
StableSort(s, lt) ==
    LET rank == AsSeq([i \in 1..Len(s) |->
                    1 + Cardinality({j \in 1..Len(s) :
                            \/ lt[<<j, i>>]
                            \/ (~lt[<<i, j>>] /\ j < i)})])
    IN AsSeq([k \in 1..Len(s) |-> s[CHOOSE i \in 1..Len(s) : rank[i] = k]])

Pairs(n) == (1..n) \X (1..n)

\* The undirected edges a graph may have, and its adjacency.
Edges == {{"G1", "T1"}, {"G1", "T2"}, {"G2", "T1"}, {"G2", "T2"}, {"G1", "G2"}}

AdjOf(E) == [n \in Nodes |-> {m \in Nodes : {n, m} \in E /\ m # n}]

HGNCAttr == [n \in Nodes |-> IF n = "G1" THEN "h1"
                             ELSE IF n = "G2" THEN "h2" ELSE NoAttr]

\* len(self.MG.graph[n])
Degree(n) == Cardinality(graph.adj[n])

\* The cosine similarity of two node vectors, the same in every state.
SimTable == [p \in Nodes \X Nodes |->
                IF p = <<"G1", "T1">> THEN 90
                ELSE IF p = <<"G1", "T2">> THEN 20
                ELSE IF p = <<"G2", "T1">> THEN 60
                ELSE IF p = <<"G2", "T2">> THEN 95
                ELSE 0]

\* self.nv.most_similar(geneoi, topn=len(self.nv.vocab)): every other word of
\* the vocabulary by descending similarity, or KeyError for an unknown word.
most_similar(geneoi) ==
    LET others == SelectSeq(NodeSeq, LAMBDA w : w \in nv.vocab /\ w # geneoi)
        pairs  == AsSeq([i \in 1..Len(others) |->
                     [GO |-> others[i], similarity |-> SimTable[<<geneoi, others[i]>>]]])
    IN StableSort(pairs, [p \in Pairs(Len(pairs)) |->
                            pairs[p[1]].similarity > pairs[p[2]].similarity])

(***************************************************************************)
(* statsmodels.stats.multitest.fdrcorrection(pvals, method='indep'): the   *)
(* Benjamini-Hochberg adjusted p-values, in the order of pvals.            *)
(***************************************************************************)
RECURSIVE MinAccumulate(_, _)
MinAccumulate(raw, k) ==
    IF k = Len(raw) THEN raw[k]
    ELSE RMin(raw[k], MinAccumulate(raw, k + 1))

fdrcorrectionUncorrected(pvals) == pvals

fdrcorrection(pvals) ==
    LET m        == Len(pvals)
        sortind  == StableSort(AsSeq([i \in 1..m |-> i]),
                               [p \in Pairs(m) |-> RLess(pvals[p[1]], pvals[p[2]])])
        sorted   == AsSeq([k \in 1..m |-> pvals[sortind[k]]])
        \* pvals_sorted / ecdffactor, ecdffactor[k] = k/m
        raw      == AsSeq([k \in 1..m |-> Rat(sorted[k][1] * m, sorted[k][2] * k)])
        acc      == AsSeq([k \in 1..m |-> MinAccumulate(raw, k)])
        capped   == AsSeq([k \in 1..m |-> IF RLess(ROne, acc[k]) THEN ROne ELSE acc[k]])
    IN AsSeq([i \in 1..m |-> capped[CHOOSE k \in 1..m : sortind[k] = i]])

(***************************************************************************)
(* get_GO_df.                                                              *)
(***************************************************************************)
\* GO_con2gene, line 99
Candidates(geneoi) == graph.adj[geneoi] \cap GO_nodes

\* min(N_GO_con, N_gene_con), line 107
ConnMax(N_GO_con, N_gene_con) ==
    IF N_GO_con > N_gene_con THEN N_GO_con ELSE N_gene_con

Conn(N_GO_con, N_gene_con) ==
    IF N_GO_con < N_gene_con THEN N_GO_con ELSE N_gene_con

\* What one pass of the loop of lines 103-108 raises for a row, if anything.
RowExc(row, N_gene_con) ==
    IF row.GO \notin graph.name THEN "KeyError_name"
    ELSE IF P_sim(row.similarity, Conn(Degree(row.GO), N_gene_con)).exc # "none"
         THEN "KeyError_srd"
         ELSE "none"

RECURSIVE FirstExc(_, _, _)
FirstExc(rows, N_gene_con, i) ==
    IF i > Len(rows) THEN "none"
    ELSE IF RowExc(rows[i], N_gene_con) # "none" THEN RowExc(rows[i], N_gene_con)
         ELSE FirstExc(rows, N_gene_con, i + 1)

\* The filter of line 115.
KeepWrong(padj, alpha) == RLeq(padj, alpha)

Keep(padj, alpha) == RLess(padj, alpha)

\* The result of a call: exc is what it raises ("none": it returns GOdf);
\* simdf is the table before the filter of line 115.
get_GO_df(geneoi, N_gene_con, alpha) ==
    LET GO_con2gene == Candidates(geneoi)
        empty == [exc |-> "none", simdf |-> <<>>, GOdf |-> <<>>]
    IN
    IF geneoi \notin nv.vocab
    THEN [empty EXCEPT !.exc = "KeyError_most_similar"]
    ELSE
    LET rows == SelectSeq(most_similar(geneoi), LAMBDA r : r.GO \in GO_con2gene)
        exc  == FirstExc(rows, N_gene_con, 1)
    IN
    IF exc # "none" THEN [empty EXCEPT !.exc = exc]
    ELSE
    LET PVAL == AsSeq([i \in 1..Len(rows) |->
                   P_sim(rows[i].similarity,
                         Conn(Degree(rows[i].GO), N_gene_con)).pval])
        q_val == fdrcorrection(PVAL)
        simdf == AsSeq([i \in 1..Len(rows) |->
                    [desc       |-> <<"name", rows[i].GO>>,
                     GO         |-> rows[i].GO,
                     NGO        |-> Degree(rows[i].GO),
                     similarity |-> rows[i].similarity,
                     pval       |-> PVAL[i],
                     padj       |-> q_val[i]]])
    IN [exc |-> "none", simdf |-> simdf,
        GOdf |-> SelectSeq(simdf, LAMBDA r : Keep(r.padj, alpha))]


(***************************************************************************)
(* generate_output.                                                        *)
(***************************************************************************)
NoIteration == [node |-> NoAttr, outcome |-> "no_iteration", simdf |-> <<>>, GOdf |-> <<>>]

CatCodeByValue(id) == IF id = "h1" THEN 1 ELSE IF id = "h2" THEN 2 ELSE 3

\* Position of a gene ID among the categories set at line 82; NaN sorts last.
CatCode(id) ==
    IF \E i \in 1..Len(hgncid) : hgncid[i] = id
    THEN CHOOSE i \in 1..Len(hgncid) : hgncid[i] = id
    ELSE Len(hgncid) + 1

\* sort_values(by=['HGNC:ID','padj','pval']), line 83
RowLess(a, b) ==
    \/ CatCode(a.ID) < CatCode(b.ID)
    \/ CatCode(a.ID) = CatCode(b.ID) /\ RLess(a.padj, b.padj)
    \/ CatCode(a.ID) = CatCode(b.ID) /\ a.padj = b.padj /\ RLess(a.pval, b.pval)

\* Lines 81-82: the column becomes categorical with the gene list as its
\* categories; a value that is no category becomes NaN.
Categorize(df) ==
    AsSeq([i \in 1..Len(df) |->
        [df[i] EXCEPT !.ID = IF \E k \in 1..Len(hgncid) : hgncid[k] = df[i].ID
                             THEN df[i].ID ELSE NaN]])

Unsorted(df) == Categorize(df)

SortedReport(df) ==
    LET cat == Categorize(df)
    IN StableSort(cat, [p \in Pairs(Len(cat)) |-> RowLess(cat[p[1]], cat[p[2]])])

\* Lines 75-77: the identifying columns put in front of GOdf's rows.
Prepend(GOdf, id, n, N_gene_con) ==
    AsSeq([i \in 1..Len(GOdf) |->
        [ID |-> id, HUGO |-> n, Ngene |-> N_gene_con,
         desc |-> GOdf[i].desc, GO |-> GOdf[i].GO, NGO |-> GOdf[i].NGO,
         similarity |-> GOdf[i].similarity,
         pval |-> GOdf[i].pval, padj |-> GOdf[i].padj]])

\* set_categories raises ValueError for categories that are not unique.
UniqueCategories ==
    \A i, j \in 1..Len(hgncid) : hgncid[i] = hgncid[j] => i = j

Fixed == <<graph, GO_nodes, nv, srd, hgncid, GW>>

\* Line 69: a call of generate_output starts.
Call(alpha) ==
    /\ pc \in {"idle", "done", "raised"}
    /\ calls < MaxCalls
    /\ pc' = "loop"
    /\ idx' = 1
    /\ alpha_FDR' = alpha
    /\ calls' = calls + 1
    /\ last' = NoIteration
    /\ UNCHANGED <<Fixed, outdf, reports, q_n, q_log>>

\* except KeyError, line 79: the exceptions the handler catches.
IsKeyErrorNarrow(exc) == exc = "KeyError_HGNC"

IsKeyError(exc) ==
    exc \in {"KeyError_HGNC", "KeyError_most_similar", "KeyError_name",
             "KeyError_srd", "KeyError_GW"}

\* What the body of the try block (lines 72-78) raises for node n, if
\* anything: "not_listed" and "none" are its two normal ends.
BodyOutcome(n, r) ==
    IF graph.HGNC[n] = NoAttr THEN "KeyError_HGNC"
    ELSE IF ~(\E i \in 1..Len(hgncid) : hgncid[i] = graph.HGNC[n]) THEN "not_listed"
    ELSE IF r.exc # "none" THEN r.exc
    ELSE IF ~GW.bound THEN "NameError"
    ELSE IF GW.HGNC[n] = NoAttr THEN "KeyError_GW"
    ELSE "none"

\* Lines 70-80: one iteration of the loop, for the node n = g_view[idx].
Iteration ==
    /\ pc = "loop"
    /\ idx <= Len(graph.order)
    /\ LET n == graph.order[idx]
           N_gene_con == Degree(n)
           r == get_GO_df(n, N_gene_con, alpha_FDR)
           o == BodyOutcome(n, r)
           returned == o \in {"none", "NameError", "KeyError_GW"}
           it == [node |-> n, outcome |-> o,
                  simdf |-> IF returned THEN r.simdf ELSE <<>>,
                  GOdf |-> IF returned THEN r.GOdf ELSE <<>>]
       IN
       /\ last' = it
       /\ IF o = "none"
          THEN /\ outdf' = outdf \o Prepend(r.GOdf, GW.HGNC[n], n, N_gene_con)
               /\ idx' = idx + 1
               /\ UNCHANGED pc
          ELSE IF o = "not_listed" \/ IsKeyError(o)
          THEN /\ idx' = idx + 1
               /\ UNCHANGED <<pc, outdf>>
          ELSE /\ pc' = "raised"
               /\ UNCHANGED <<idx, outdf>>
    /\ UNCHANGED <<Fixed, alpha_FDR, calls, reports, q_n, q_log>>

\* Lines 81-85: the loop is over; the table is sorted, written and returned.
Finish ==
    /\ pc = "loop"
    /\ idx > Len(graph.order)
    /\ IF UniqueCategories
       THEN /\ outdf' = SortedReport(outdf)
            /\ reports' = Append(reports, [alpha |-> alpha_FDR, table |-> outdf'])
            /\ pc' = "done"
       ELSE /\ pc' = "raised"
            /\ UNCHANGED <<outdf, reports>>
    /\ UNCHANGED <<Fixed, idx, alpha_FDR, calls, last, q_n, q_log>>

(***************************************************************************)
(* The states after construction.                                          *)
(***************************************************************************)
Alphas == {<<1, 20>>, <<1, 2>>}

GeneLists == {<<"h1", "h2">>, <<"h2", "h1">>, <<"h2">>, <<"h1", "h1">>}

Orders == {<<"G1", "G2", "T1", "T2">>, <<"T2", "G2", "T1", "G1">>}

\* The store's defects: a GO node without 'name', a node without a vector.
Stores == {[name |-> Terms, vocab |-> Nodes],
           [name |-> {"T1"}, vocab |-> Nodes],
           [name |-> Terms, vocab |-> Nodes \ {"G2"}],
           [name |-> Terms, vocab |-> Nodes \ {"T2"}]}

\* GW[tr].MG.graph.node[n]['HGNC'] of line 75: the name is unbound, or bound
\* to an object whose graph gives node n this attribute, or none.
Bindings == {[bound |-> FALSE, HGNC |-> HGNCAttr],
             [bound |-> TRUE, HGNC |-> HGNCAttr],
             [bound |-> TRUE, HGNC |-> [HGNCAttr EXCEPT !["G1"] = "h9", !["G2"] = NoAttr]]}

InitObject ==
    /\ GO_nodes = Terms
    /\ outdf = <<>>
    /\ pc = "idle"
    /\ idx = 1
    /\ alpha_FDR = <<1, 20>>
    /\ calls = 0
    /\ reports = <<>>
    /\ last = NoIteration
    /\ q_log = <<>>

Init ==
    /\ \E E \in SUBSET Edges, st \in Stores, o \in Orders :
          /\ graph = [adj |-> AdjOf(E), HGNC |-> HGNCAttr, name |-> st.name, order |-> o]
          /\ nv = [vocab |-> st.vocab]
    /\ srd \in NullTables
    /\ hgncid \in GeneLists
    /\ GW \in Bindings
    /\ q_n = 1
    /\ InitObject

Next ==
    \/ \E alpha \in Alphas : Call(alpha)
    \/ Iteration
    \/ Finish

Spec == Init /\ [][Next]_vars

(***************************************************************************)
(* P_sim called directly, on a fixed object.                               *)
(***************************************************************************)
CallPSim(sim) ==
    /\ Len(q_log) < MaxQueries
    /\ q_log' = Append(q_log, [sim |-> sim, N_con |-> q_n, res |-> P_sim(sim, q_n)])
    /\ UNCHANGED <<Fixed, outdf, pc, idx, alpha_FDR, calls, reports, last, q_n>>

InitPSim ==
    /\ graph = [adj |-> AdjOf(Edges), HGNC |-> HGNCAttr, name |-> Terms,
                order |-> NodeSeq]
    /\ nv = [vocab |-> Nodes]
    /\ srd \in NullTables
    /\ hgncid = <<"h1", "h2">>
    /\ GW = [bound |-> FALSE, HGNC |-> HGNCAttr]
    /\ q_n \in 0..MaxConn
    /\ InitObject

NextPSim == \E sim \in SimValues : CallPSim(sim)

SpecPSim == InitPSim /\ [][NextPSim]_vars


(***************************************************************************)
(* Properties of P_sim, checked under SpecPSim.                            *)
(***************************************************************************)
\* The bucket key of a connectivity n >= 1, from the k with 2^k <= n < 2^(k+1).
BucketKeyOf(n) ==
    LET k == CHOOSE e \in 0..n : 2^e <= n /\ n < 2^(e + 1)
    IN <<"d", Digits[k + 1], ".", "0">>

Below(B, s) == Cardinality({j \in 1..Len(B) : B[j] < s})

\* C3: for n >= 1 whose bucket exists, P_sim(s, n) returns 1 - r/|B| with B
\* the null sequence under the key of floor(log2(n)) and r the number of
\* elements of B strictly below s; n = 8 and n = 9 both read "d3.0", and with
\* B = [0.1, 0.3, 0.5, 0.7, 0.9], s = 0.6 the p-value is 2/5.
C3_PSimIsUpperTailRank ==
    \A i \in 1..Len(q_log) :
        LET e == q_log[i]
            key == BucketKeyOf(e.N_con)
        IN /\ (e.N_con >= 1 /\ key \in DOMAIN srd) =>
                 /\ e.res.exc = "none"
                 /\ e.res.pval[1] * Len(srd[key])
                      = (Len(srd[key]) - Below(srd[key], e.sim)) * e.res.pval[2]
           /\ (e.N_con \in {8, 9} /\ srd[K3] = Five /\ e.sim = 60) =>
                 e.res = [exc |-> "none", pval |-> <<2, 5>>]

C3_Witness ==
    \E i, j \in 1..Len(q_log) :
        /\ q_log[i].N_con = 9 /\ srd[K3] = Five
        /\ q_log[i].sim = 60 /\ q_log[i].res.pval = <<2, 5>>
        /\ q_log[j].sim = 50 /\ q_log[j].res.pval = <<3, 5>>

\* C4: for a fixed null table and connectivity, s1 < s2 implies
\* P_sim(s2, n) <= P_sim(s1, n), and every returned p-value is in [0, 1].
C4_PSimMonotone ==
    \A i, j \in 1..Len(q_log) :
        (q_log[i].res.exc = "none" /\ q_log[j].res.exc = "none") =>
            /\ RLeq(RZero, q_log[i].res.pval) /\ RLeq(q_log[i].res.pval, ROne)
            /\ (q_log[i].sim < q_log[j].sim) =>
                  RLeq(q_log[j].res.pval, q_log[i].res.pval)

C4_Witness ==
    \E i, j \in 1..Len(q_log) :
        /\ q_log[i].res.exc = "none" /\ q_log[j].res.exc = "none"
        /\ q_log[i].sim < q_log[j].sim
        /\ RLess(q_log[j].res.pval, q_log[i].res.pval)

(***************************************************************************)
(* Properties of get_GO_df and generate_output, checked under Spec.        *)
(***************************************************************************)
Listed(n) == \E i \in 1..Len(hgncid) : hgncid[i] = graph.HGNC[n]

\* The last iteration called get_GO_df and it returned.
Returned == last.outcome \in {"none", "NameError", "KeyError_GW"}

RowsOf(df) == {df[i] : i \in 1..Len(df)}

C10_RowsAreGeneGOCandidates ==
    \A r \in RowsOf(outdf) :
        /\ graph.HGNC[r.HUGO] # NoAttr /\ Listed(r.HUGO)
        /\ r.GO \in graph.adj[r.HUGO] /\ r.GO \in GO_nodes
        /\ graph.HGNC[r.GO] = NoAttr
        /\ r.Ngene = Cardinality(graph.adj[r.HUGO])
        /\ r.NGO = Cardinality(graph.adj[r.GO])
        /\ r.similarity = SimTable[<<r.HUGO, r.GO>>]
        /\ LET n == IF r.NGO <= r.Ngene THEN r.NGO ELSE r.Ngene
           IN /\ n >= 1
              /\ n <= r.NGO /\ n <= r.Ngene
              /\ P_sim(r.similarity, n) = [exc |-> "none", pval |-> r.pval]

C10_Witness ==
    /\ pc = "done"
    /\ \E r \in RowsOf(outdf) :
          /\ r.HUGO = "G1" /\ "G2" \in graph.adj["G1"]
          /\ r.Ngene = 3 /\ r.NGO = 1
          /\ P_sim(r.similarity, 3).pval # r.pval

\* C2: in every table generate_output returns, of two rows with the same gene
\* ID the one with the smaller adjusted p-value (then the smaller raw
\* p-value) comes first, and of two rows with different gene IDs the one
\* whose ID is earlier in the gene list comes first.
C2_ReportOrdered ==
    /\ pc = "done" => outdf = reports[Len(reports)].table
    /\ \A k \in 1..Len(reports) :
          LET t == reports[k].table
              pos(id) == CHOOSE p \in 1..Len(hgncid) : hgncid[p] = id
              listed(id) == \E p \in 1..Len(hgncid) : hgncid[p] = id
          IN \A i, j \in 1..Len(t) : i < j =>
                /\ t[i].ID = t[j].ID =>
                      /\ RLeq(t[i].padj, t[j].padj)
                      /\ t[i].padj = t[j].padj => RLeq(t[i].pval, t[j].pval)
                /\ (t[i].ID # t[j].ID /\ listed(t[i].ID) /\ listed(t[j].ID)) =>
                      pos(t[i].ID) < pos(t[j].ID)

\* A report in which the sort moved a gene's rows in front of the rows of a
\* gene that the graph iterates first and whose ID is the smaller value, and
\* reordered the rows of one gene.
C2_Witness ==
    /\ pc = "done"
    /\ graph.order = <<"G1", "G2", "T1", "T2">>
    /\ hgncid = <<"h2", "h1">>
    /\ \E i, j \in 1..Len(outdf) :
          /\ i < j /\ outdf[i].ID = "h2" /\ outdf[j].ID = "h1"
          /\ outdf[i].HUGO = "G2" /\ outdf[j].HUGO = "G1"
    /\ \E i, j \in 1..Len(outdf) :
          /\ i < j /\ outdf[i].ID = outdf[j].ID
          /\ RLess(outdf[i].padj, outdf[j].padj)
          /\ outdf[i].similarity < outdf[j].similarity


\* The last iteration ended in a failure of the processing of its node.
Failed == last.outcome \notin {"no_iteration", "none", "not_listed"}

\* The rows get_GO_df gives for gene node n in the current call, if it returns.
SignificantRows(n) ==
    LET r == get_GO_df(n, Degree(n), alpha_FDR)
    IN IF r.exc = "none" THEN {[HUGO |-> n, GO |-> x.GO] : x \in RowsOf(r.GOdf)}
       ELSE {}

\* C5: whatever failure occurs while one gene node is processed, the loop
\* goes on to the next node, the run reaches the final sort, and the
\* significant rows of every other listed gene are in the returned table.
C5_PerGeneFailureNeverAborts ==
    /\ (Failed /\ idx <= Len(graph.order)) => pc = "loop"
    /\ (Failed /\ pc = "done") =>
          \A n \in Nodes \ {last.node} :
             (graph.HGNC[n] # NoAttr /\ Listed(n)) =>
                SignificantRows(n) \subseteq
                   {[HUGO |-> x.HUGO, GO |-> x.GO] : x \in RowsOf(outdf)}

\* C6: two successive calls of generate_output on one object, with the same
\* alpha, return the same table.
C6_SuccessiveCallsSameTable ==
    \A i, j \in 1..Len(reports) :
        reports[i].alpha = reports[j].alpha => reports[i].table = reports[j].table

\* C7: a listed gene with no GO node among its neighbours gives an empty table
\* from get_GO_df, adds no row, and generate_output does not raise on it.
C7_EmptyCandidatesNoRaise ==
    (/\ last.node \in Nodes /\ graph.HGNC[last.node] # NoAttr /\ Listed(last.node)
     /\ last.node \in nv.vocab
     /\ graph.adj[last.node] \cap GO_nodes = {})
    => /\ last.outcome \in {"none", "KeyError_GW"}
       /\ last.simdf = <<>> /\ last.GOdf = <<>>
       /\ idx <= Len(graph.order) => pc = "loop"

=============================================================================
